---- MODULE Spec2Model ----
(***************************************************************************)
(* osquery-perf: a fleet launcher (main) that creates hostCount simulated  *)
(* osquery agents, each running runLoop in its own goroutine:              *)
(*   Enroll once, then forever Config, DistributedRead, conditional        *)
(*   DistributedWrite, Sleep(10s).                                         *)
(* Modelled from src/agent.go.  Durations are in whole seconds.            *)
(***************************************************************************)
EXTENDS Integers, Sequences, FiniteSets, TLC

(* ---------------- bounds of the model ---------------- *)
\* largest -host_count flag value explored
MaxHosts == 2
\* the clock "time since launcher start" saturates here
MaxElapsed == 12
\* largest -host_count explored where only the launcher is looked at
MaxFleet == 5
\* largest -host_count whose launch is followed to its end under fairness
MaxLaunch == 3

(* ---------------- program constants ---------------- *)
\* 10 * time.Second, the launcher's spread window (agent.go:223)
Window == 10
\* 10 * time.Second, the idle at the end of a cycle (agent.go:61)
LoopSleep == 10
\* a.randomString(12) (agent.go:80)
FieldLen == 12
\* http.StatusOK
StatusOK == 200

Trigger == "kolide_detail_query_network_interface"
OtherQuery == "some_other_query"

VARIABLES
  hostCount,   \* *hostCount, the -host_count flag
  addrOK,      \* whether http.NewRequest can parse ServerAddress + path
  mainPc,      \* position of main
  i,           \* main's loop counter
  sleepTime,   \* main's per-agent delay
  mainTimer,   \* remaining time of main's time.Sleep
  agents,      \* main's agents slice: one record per *Agent
  hist,        \* per agent: observations of what its run loop did
  elapsed,     \* time since launcher start (saturating at MaxElapsed)
  phase,       \* wall clock modulo Window
  lastGoAt     \* value of elapsed at the latest `go a.runLoop()`

vars == <<hostCount, addrOK, mainPc, i, sleepTime, mainTimer, agents, hist,
          elapsed, phase, lastGoAt>>

mainVars == <<hostCount, addrOK, mainPc, i, sleepTime, mainTimer, lastGoAt>>
clockVars == <<elapsed, phase>>

Min(x, y) == IF x < y THEN x ELSE y
Max(x, y) == IF x > y THEN x ELSE y
Abs(x) == IF x < 0 THEN -x ELSE x

\* Go's integer division truncates toward zero (b # 0)
GoDiv(a, b) ==
  LET q == Abs(a) \div Abs(b)
  IN  IF (a < 0) # (b < 0) THEN -q ELSE q

Agents == 1..Len(agents)

(* ---------------- JSON documents and HTTP exchanges ---------------- *)
EmptyMap == [x \in {} |-> ""]
\* a Go map[string]string: nil, or a mapping
NilMap == [nil |-> TRUE, m |-> EmptyMap]
GoMap(m) == [nil |-> FALSE, m |-> m]
\* `_, ok := queries[key]` : a lookup in a nil map finds nothing
HasKey(q, key) == ~q.nil /\ key \in DOMAIN q.m

JStr(s) == [t |-> "string", s |-> s, m |-> EmptyMap]
JNum == [t |-> "number", s |-> "", m |-> EmptyMap]
JObj(m) == [t |-> "object", s |-> "", m |-> m]
NoFields == [x \in {} |-> JNum]
\* a response body: malformed bytes, or a JSON object with these fields
Malformed == [wf |-> FALSE, fields |-> NoFields]
Obj(f) == [wf |-> TRUE, fields |-> f]

\* json.NewDecoder(resp.Body).Decode(&parsedResp) for enrollResponse:
\* fails on malformed JSON and on a node_key that is not a string; a
\* missing node_key leaves the zero value ""
DecodeEnroll(body) ==
  LET has == "node_key" \in DOMAIN body.fields
      ok == body.wf /\ (has => body.fields["node_key"].t = "string")
  IN  [ok |-> ok,
       NodeKey |-> IF ok /\ has THEN body.fields["node_key"].s ELSE ""]

\* the same for distributedReadResponse: a missing queries leaves a nil map
DecodeRead(body) ==
  LET has == "queries" \in DOMAIN body.fields
      ok == body.wf /\ (has => body.fields["queries"].t = "object")
  IN  [ok |-> ok,
       Queries |-> IF ok /\ has THEN GoMap(body.fields["queries"].m) ELSE NilMap]

\* what a.Client.Do returns: a transport error, or a response
TransportErr == [err |-> TRUE, status |-> 0, body |-> Malformed]
Response(status, body) == [err |-> FALSE, status |-> status, body |-> body]

\* no call of a.Client.Do has returned yet
NoOut == [err |-> FALSE, status |-> 0, body |-> Malformed]

NoReq == [method |-> "", path |-> "", body |-> ""]
Post(path, body) == [method |-> "POST", path |-> path, body |-> body]

\* mutant of NodeKeyBody: the body never carries the key
NodeKeyBodyBlank(key) == "{\"node_key\": \"\"}"

\* the literal body of Config and DistributedRead
NodeKeyBody(key) == "{\"node_key\": \"" \o key \o "\"}"

(* ---------------- the field cache ---------------- *)
stringVals ==
  << "a","b","c","d","e","f","g","h","i","j","k","l","m",
     "n","o","p","q","r","s","t","u","v","w","x","y","z",
     "A","B","C","D","E","F","G","H","I","J","K","L","M",
     "N","O","P","Q","R","S","T","U","V","W","X","Y","Z",
     "0","1","2","3","4","5","6","7","8","9","-","_","." >>

\* randomString(n), given the values rnd[1..n] that rand.Int63() returns
RECURSIVE randomString(_, _)
\* mutant of randomString: the loop stops one character short
randomStringShort(n, rnd) ==
  IF n <= 1 THEN ""
  ELSE randomString(n - 1, rnd) \o stringVals[(rnd[n] % Len(stringVals)) + 1]

randomString(n, rnd) ==
  IF n <= 0 THEN ""
  ELSE randomString(n - 1, rnd) \o stringVals[(rnd[n] % Len(stringVals)) + 1]

(* ---------------- agents ---------------- *)
\* NewAgent: the fields of a fresh *Agent, and the goroutine that
\* `go a.runLoop()` starts for it, not yet running; tmplErr is whether the
\* ExecuteTemplate of the operation under way has failed, openBodies the
\* number of response bodies the agent has got and not closed
NewAgent(id) ==
  [UUID |-> id, NodeKey |-> "", strings |-> EmptyMap,
   pc |-> "ready", timer |-> 0, resp |-> NilMap, req |-> NoReq,
   tmplErr |-> FALSE, openBodies |-> 0]

NoCall == [key |-> "", val |-> "", again |-> FALSE]
NewHist ==
  [nEnroll |-> 0, enrollDone |-> FALSE, enrolledKey |-> "",
   nConfig |-> 0, nRead |-> 0, nWrite |-> 0, nPost |-> 0,
   readOut |-> NoOut, writeArg |-> NilMap,
   log |-> {}, cached |-> NoCall, first |-> EmptyMap, startPhase |-> 0]

\* main after flag.Parse and template.ParseGlob, given the flags
InitWith(hostCounts, addrs) ==
  /\ hostCount \in hostCounts
  /\ addrOK \in addrs
  /\ mainPc = "main"
  /\ i = 0
  /\ sleepTime = 0
  /\ mainTimer = 0
  /\ agents = << >>
  /\ hist = << >>
  /\ elapsed = 0
  /\ phase = 0
  /\ lastGoAt = 0

Init == InitWith(-1..MaxHosts, BOOLEAN)

\* mutant of SleepFor: time.Sleep returns at once
SleepForNothing(d) == 0

\* time.Sleep(d): what is left of a pause just begun; a negative or zero
\* duration returns at once
SleepFor(d) == Max(0, d)

(* ---------------- main, the fleet launcher ---------------- *)
\* agent.go:223  sleepTime := (10 * time.Second) / time.Duration(*hostCount)
\* an integer division by zero is a run-time panic
mainSleepTime ==
  /\ mainPc = "main"
  /\ IF hostCount = 0
       THEN mainPc' = "panic" /\ UNCHANGED sleepTime
       ELSE mainPc' = "loop" /\ sleepTime' = GoDiv(Window, hostCount)
  /\ UNCHANGED <<hostCount, addrOK, i, mainTimer, agents, hist, lastGoAt>>
  /\ UNCHANGED clockVars

\* agent.go:225-229  one iteration up to the call of time.Sleep
mainSpawn ==
  /\ mainPc = "loop"
  /\ i < hostCount
  /\ agents' = Append(agents, NewAgent(Len(agents) + 1))
  /\ hist' = Append(hist, NewHist)
  /\ lastGoAt' = elapsed
  /\ mainTimer' = SleepFor(sleepTime)
  /\ mainPc' = "sleep"
  /\ UNCHANGED <<hostCount, addrOK, i, sleepTime>>
  /\ UNCHANGED clockVars

\* mutant of mainWake: the launcher goes on only when the agent it has
\* just started is through its Enroll
mainWakeJoined ==
  /\ mainPc = "sleep"
  /\ mainTimer = 0
  /\ agents[Len(agents)].pc \notin {"ready", "enroll", "enrollWait"}
  /\ i' = i + 1
  /\ mainPc' = "loop"
  /\ UNCHANGED <<hostCount, addrOK, sleepTime, mainTimer, agents, hist, lastGoAt>>
  /\ UNCHANGED clockVars

\* time.Sleep(sleepTime) returns, i++
mainWake ==
  /\ mainPc = "sleep"
  /\ mainTimer = 0
  /\ i' = i + 1
  /\ mainPc' = "loop"
  /\ UNCHANGED <<hostCount, addrOK, sleepTime, mainTimer, agents, hist, lastGoAt>>
  /\ UNCHANGED clockVars

\* agent.go:232-233  "Agents running", then block forever
mainRunning ==
  /\ mainPc = "loop"
  /\ i >= hostCount
  /\ mainPc' = "running"
  /\ UNCHANGED <<hostCount, addrOK, i, sleepTime, mainTimer, agents, hist, lastGoAt>>
  /\ UNCHANGED clockVars

(* ---------------- time ---------------- *)
\* d seconds pass: every pending time.Sleep gets d closer to its end.  A
\* sleeper is never forced to wake when its time is up (time.Sleep pauses
\* for at least the duration), and a blocked Client.Do has no deadline.
Tick(d) ==
  /\ mainPc # "panic"
  /\ elapsed' = Min(MaxElapsed, elapsed + d)
  /\ phase' = (phase + d) % Window
  /\ mainTimer' = Max(0, mainTimer - d)
  /\ agents' = [a \in Agents |->
                  [agents[a] EXCEPT !.timer = Max(0, @ - d)]]
  /\ UNCHANGED <<hostCount, addrOK, mainPc, i, sleepTime, hist, lastGoAt>>

(* ---------------- the agent's operations ---------------- *)
\* mutant of BodyClose: the deferred Close is missing
BodyCloseMissing(n) == n

\* agent.go:103, 136, 161, 197  defer resp.Body.Close(): run when the
\* operation returns, on every path after a.Client.Do gave a response
BodyClose(n) == n - 1

\* the open response bodies when an operation whose a.Client.Do returned
\* out has returned: a transport error brings no response to close
AfterDo(n, out) == IF out.err THEN n ELSE BodyClose(n + 1)

EnrollPath == "/api/v1/osquery/enroll"
ConfigPath == "/api/v1/osquery/config"
ReadPath == "/api/v1/osquery/distributed/read"
WritePath == "/api/v1/osquery/distributed/write"

\* mutant of CachedString: a value is generated and stored on every call
CachedStringFresh(strs, key, rnd) ==
  LET val == randomString(FieldLen, rnd)
  IN  [val |-> val,
       strings |-> [k \in DOMAIN strs \cup {key} |->
                      IF k = key THEN val ELSE strs[k]]]

\* mutant of CachedString: a miss starts the map afresh
CachedStringEvict(strs, key, rnd) ==
  IF key \in DOMAIN strs
    THEN [val |-> strs[key], strings |-> strs]
    ELSE LET val == randomString(FieldLen, rnd)
         IN  [val |-> val, strings |-> (key :> val)]

\* a.CachedString(key), given the rand.Int63() values a miss would draw:
\* the value returned and the map afterwards
CachedString(strs, key, rnd) ==
  IF key \in DOMAIN strs
    THEN [val |-> strs[key], strings |-> strs]
    ELSE LET val == randomString(FieldLen, rnd)
         IN  [val |-> val, strings |-> (key :> val) @@ strs]

\* mutant of EnrollOutcome: the status of the response is not looked at
EnrollOutcomeAnyStatus(key, out) ==
  IF out.err THEN [NodeKey |-> key, log |-> {"do request:"}]
  ELSE IF ~DecodeEnroll(out.body).ok
    THEN [NodeKey |-> key, log |-> {"json parse:"}]
  ELSE [NodeKey |-> DecodeEnroll(out.body).NodeKey, log |-> {}]

\* Enroll from the return of a.Client.Do on (agent.go:98-116): the NodeKey
\* afterwards and what is logged
EnrollOutcome(key, out) ==
  IF out.err THEN [NodeKey |-> key, log |-> {"do request:"}]
  ELSE IF out.status # StatusOK THEN [NodeKey |-> key, log |-> {"status:"}]
  ELSE IF ~DecodeEnroll(out.body).ok
    THEN [NodeKey |-> key, log |-> {"json parse:"}]
  ELSE [NodeKey |-> DecodeEnroll(out.body).NodeKey, log |-> {}]

\* Config from the return of a.Client.Do on (agent.go:131-143): the log
ConfigOutcome(out) ==
  IF out.err THEN {"do config request:"}
  ELSE IF out.status # StatusOK THEN {"config status:"}
  ELSE {}

\* mutant of DistributedReadOutcome: a non-200 response is decoded like
\* any other
DistributedReadOutcomeAnyStatus(out) ==
  IF out.err
    THEN [err |-> "do distributed read request:", Queries |-> NilMap]
  ELSE IF ~DecodeRead(out.body).ok
    THEN [err |-> "json parse distributed read response:", Queries |-> NilMap]
  ELSE [err |-> "", Queries |-> DecodeRead(out.body).Queries]

\* DistributedRead from the return of a.Client.Do on (agent.go:157-172):
\* the (response, error) pair it returns
DistributedReadOutcome(out) ==
  IF out.err
    THEN [err |-> "do distributed read request:", Queries |-> NilMap]
  ELSE IF out.status # StatusOK
    THEN [err |-> "distributed read status:", Queries |-> NilMap]
  ELSE IF ~DecodeRead(out.body).ok
    THEN [err |-> "json parse distributed read response:", Queries |-> NilMap]
  ELSE [err |-> "", Queries |-> DecodeRead(out.body).Queries]

\* DistributedWrite from the return of a.Client.Do on (agent.go:192-204)
DistributedWriteOutcome(out) ==
  IF out.err THEN {"do distributed write request:"}
  ELSE IF out.status # StatusOK THEN {"distributed write status:"}
  ELSE {}

\* mutant of Responds: every mapping is answered
RespondsAlways(queries) == TRUE

\* agent.go:178  whether DistributedWrite goes on to post
Responds(queries) == HasKey(queries, Trigger)

\* mutant of WriteArg: a fixed mapping, not this cycle's response
WriteArgFixed(agent) == GoMap(Trigger :> "select 1")

\* agent.go:59  the argument runLoop hands to DistributedWrite
WriteArg(agent) == agent.resp

\* mutant of Sleeping: the cycle ends by starting runLoop over
SleepingRestart(agent) ==
  [agent EXCEPT !.pc = "ready", !.timer = 0, !.resp = NilMap, !.req = NoReq]

\* mutant of Sleeping: the loop is left when the cycle ends
SleepingStopped(agent) ==
  [agent EXCEPT !.pc = "stopped", !.timer = 0, !.resp = NilMap, !.req = NoReq]

\* agent.go:61  time.Sleep(10 * time.Second) begins; resp goes out of scope
Sleeping(agent) ==
  [agent EXCEPT !.pc = "sleep", !.timer = SleepFor(LoopSleep),
                !.resp = NilMap, !.req = NoReq]

\* mutant of AtLoopTop: a cycle waits until no other agent has a request
\* out
AtLoopTopSerial(agent) ==
  /\ \/ agent.pc = "enrolled"
     \/ agent.pc = "sleep" /\ agent.timer = 0
  /\ \A b \in Agents : agents[b].UUID # agent.UUID => agents[b].req = NoReq

\* mutant of AtLoopTop: the next cycle does not wait for the read's
\* response
AtLoopTopPipelined(agent) ==
  \/ agent.pc \in {"enrolled", "readWait"}
  \/ agent.pc = "sleep" /\ agent.timer = 0

\* mutant of AtLoopTop: the idle is not waited out
AtLoopTopEarly(agent) == agent.pc \in {"enrolled", "sleep"}

\* agent.go:53-54  the loop is at its top and may call Config
AtLoopTop(agent) ==
  \/ agent.pc = "enrolled"
  \/ agent.pc = "sleep" /\ agent.timer = 0

\* agent.go:51-52, 85-87  the goroutine runs: runLoop calls Enroll, which
\* starts rendering the "enroll" template
runLoop(a) ==
  /\ a \in Agents
  /\ agents[a].pc = "ready"
  /\ agents' = [agents EXCEPT ![a].pc = "enroll"]
  /\ hist' = [hist EXCEPT ![a].nEnroll = @ + 1, ![a].log = {}]
  /\ UNCHANGED mainVars
  /\ UNCHANGED clockVars

\* mutant of OwnStrings: one map serves every agent
OwnStringsShared(ags, a, strs) ==
  [b \in DOMAIN ags |-> [ags[b] EXCEPT !.strings = strs]]

\* agent.go:39, 81  a.strings is the map NewAgent made for this agent: a
\* store through it reaches this agent's map and no other
OwnStrings(ags, a, strs) == [ags EXCEPT ![a].strings = strs]

\* agent.go:86-87, 176-182  what ExecuteTemplate has left in the buffer:
\* the whole body, or on a failure whatever was written before it
Rendered(name, failed) ==
  IF failed THEN "<" \o name \o ": partial>" ELSE "<" \o name \o ">"

\* agent.go:87, 182  ExecuteTemplate fails (no template of that name, or
\* an error while executing it); the error it returns is dropped
TemplateFails(a) ==
  /\ a \in Agents
  /\ agents[a].pc \in {"enroll", "render"}
  /\ ~agents[a].tmplErr
  /\ agents' = [agents EXCEPT ![a].tmplErr = TRUE]
  /\ UNCHANGED hist
  /\ UNCHANGED mainVars
  /\ UNCHANGED clockVars

\* the template being rendered (agent.go:87, 182) asks for a cached field
TemplateField(a, key, rnd) ==
  /\ a \in Agents
  /\ agents[a].pc \in {"enroll", "render"}
  /\ ~agents[a].tmplErr
  /\ LET r == CachedString(agents[a].strings, key, rnd)
     IN  /\ agents' = OwnStrings(agents, a, r.strings)
         /\ hist' = [hist EXCEPT
                       ![a].cached = [key |-> key, val |-> r.val,
                                      again |-> key \in DOMAIN hist[a].first],
                       ![a].first = IF key \in DOMAIN @ THEN @
                                    ELSE (key :> r.val) @@ @]
  /\ UNCHANGED mainVars
  /\ UNCHANGED clockVars

\* agent.go:89-98  http.NewRequest, then a.Client.Do is called
EnrollDo(a) ==
  /\ a \in Agents
  /\ agents[a].pc = "enroll"
  /\ IF ~addrOK
       THEN /\ agents' = [agents EXCEPT ![a].pc = "enrolled",
                                        ![a].tmplErr = FALSE]
            /\ hist' = [hist EXCEPT ![a].log = {"create request:"},
                                    ![a].enrollDone = TRUE,
                                    ![a].enrolledKey = agents[a].NodeKey]
       ELSE /\ agents' = [agents EXCEPT ![a].pc = "enrollWait",
                            ![a].tmplErr = FALSE,
                            ![a].req = Post(EnrollPath,
                                            Rendered("enroll", agents[a].tmplErr))]
            /\ UNCHANGED hist
  /\ UNCHANGED mainVars
  /\ UNCHANGED clockVars

\* agent.go:98-117  a.Client.Do returns out; Enroll returns
EnrollReturn(a, out) ==
  /\ a \in Agents
  /\ agents[a].pc = "enrollWait"
  /\ LET r == EnrollOutcome(agents[a].NodeKey, out)
     IN  /\ agents' = [agents EXCEPT ![a].pc = "enrolled",
                                     ![a].req = NoReq,
                                     ![a].NodeKey = r.NodeKey,
                                     ![a].openBodies = AfterDo(@, out)]
         /\ hist' = [hist EXCEPT ![a].log = r.log,
                                 ![a].enrollDone = TRUE,
                                 ![a].enrolledKey = r.NodeKey]
  /\ UNCHANGED mainVars
  /\ UNCHANGED clockVars

\* agent.go:53-54, 119-131  a cycle starts: Config is called and calls
\* a.Client.Do
Config(a) ==
  /\ a \in Agents
  /\ AtLoopTop(agents[a])
  /\ hist' = [hist EXCEPT
       ![a].nConfig = 1, ![a].nRead = 0, ![a].nWrite = 0, ![a].nPost = 0,
       ![a].readOut = NoOut, ![a].writeArg = NilMap,
       ![a].startPhase = phase,
       ![a].log = IF addrOK THEN {} ELSE {"create config request:"}]
  /\ IF ~addrOK
       THEN agents' = [agents EXCEPT ![a].pc = "read", ![a].timer = 0]
       ELSE agents' = [agents EXCEPT ![a].pc = "configWait", ![a].timer = 0,
                         ![a].req = Post(ConfigPath, NodeKeyBody(agents[a].NodeKey))]
  /\ UNCHANGED mainVars
  /\ UNCHANGED clockVars

\* mutant of AfterConfig: a failed Config is tried again
AfterConfigRetry(out) ==
  IF ConfigOutcome(out) = {} THEN "read" ELSE "enrolled"

\* agent.go:54-55  Config returns nothing: whatever came of it, runLoop
\* goes on to DistributedRead
AfterConfig(out) == "read"

\* agent.go:131-144  a.Client.Do returns out; Config returns
ConfigReturn(a, out) ==
  /\ a \in Agents
  /\ agents[a].pc = "configWait"
  /\ agents' = [agents EXCEPT ![a].pc = AfterConfig(out), ![a].req = NoReq,
                               ![a].openBodies = AfterDo(@, out)]
  /\ hist' = [hist EXCEPT ![a].log = ConfigOutcome(out)]
  /\ UNCHANGED mainVars
  /\ UNCHANGED clockVars

\* agent.go:55, 146-157  DistributedRead is called and calls a.Client.Do;
\* when the request cannot be made it returns an error, which runLoop logs
DistributedRead(a) ==
  /\ a \in Agents
  /\ agents[a].pc = "read"
  /\ IF ~addrOK
       THEN /\ agents' = [agents EXCEPT ![a] = Sleeping(@)]
            /\ hist' = [hist EXCEPT ![a].nRead = @ + 1,
                          ![a].log = {"create distributed read request:"}]
       ELSE /\ agents' = [agents EXCEPT ![a].pc = "readWait",
                            ![a].req = Post(ReadPath, NodeKeyBody(agents[a].NodeKey))]
            /\ hist' = [hist EXCEPT ![a].nRead = @ + 1, ![a].log = {}]
  /\ UNCHANGED mainVars
  /\ UNCHANGED clockVars

\* agent.go:157-173, 55-58  a.Client.Do returns out; DistributedRead
\* returns; runLoop logs the error, or holds the response
DistributedReadReturn(a, out) ==
  /\ a \in Agents
  /\ agents[a].pc = "readWait"
  /\ LET r == DistributedReadOutcome(out)
     IN  IF r.err # ""
           THEN /\ agents' = [agents EXCEPT ![a] =
                                Sleeping([@ EXCEPT
                                  !.openBodies = AfterDo(@, out)])]
                /\ hist' = [hist EXCEPT ![a].log = {r.err}, ![a].readOut = out]
           ELSE /\ agents' = [agents EXCEPT ![a].pc = "write",
                                ![a].req = NoReq, ![a].resp = r.Queries,
                                ![a].openBodies = AfterDo(@, out)]
                /\ hist' = [hist EXCEPT ![a].readOut = out]
  /\ UNCHANGED mainVars
  /\ UNCHANGED clockVars

\* agent.go:59, 175-182  DistributedWrite is called: without the trigger
\* query it returns at once, with it the template is rendered
DistributedWrite(a) ==
  /\ a \in Agents
  /\ agents[a].pc = "write"
  /\ LET queries == WriteArg(agents[a])
     IN  /\ hist' = [hist EXCEPT ![a].nWrite = @ + 1, ![a].writeArg = queries,
                                 ![a].log = {}]
         /\ IF Responds(queries)
              THEN agents' = [agents EXCEPT ![a].pc = "render"]
              ELSE agents' = [agents EXCEPT ![a] = Sleeping(@)]
  /\ UNCHANGED mainVars
  /\ UNCHANGED clockVars

\* agent.go:183-192  http.NewRequest, then a.Client.Do is called
DistributedWriteDo(a) ==
  /\ a \in Agents
  /\ agents[a].pc = "render"
  /\ IF ~addrOK
       THEN /\ agents' = [agents EXCEPT
                            ![a] = Sleeping([@ EXCEPT !.tmplErr = FALSE])]
            /\ hist' = [hist EXCEPT
                          ![a].log = {"create distributed write request:"}]
       ELSE /\ agents' = [agents EXCEPT ![a].pc = "writeWait",
                            ![a].tmplErr = FALSE,
                            ![a].req = Post(WritePath,
                                            Rendered("distributed_write",
                                                     agents[a].tmplErr))]
            /\ hist' = [hist EXCEPT ![a].nPost = @ + 1]
  /\ UNCHANGED mainVars
  /\ UNCHANGED clockVars

\* agent.go:192-205  a.Client.Do returns out; DistributedWrite returns
DistributedWriteReturn(a, out) ==
  /\ a \in Agents
  /\ agents[a].pc = "writeWait"
  /\ agents' = [agents EXCEPT ![a] =
                  Sleeping([@ EXCEPT !.openBodies = AfterDo(@, out)])]
  /\ hist' = [hist EXCEPT ![a].log = DistributedWriteOutcome(out)]
  /\ UNCHANGED mainVars
  /\ UNCHANGED clockVars

(* ---------------- the environment explored ---------------- *)
EnrollOutcomes ==
  { TransportErr,
    Response(500, Obj("node_key" :> JStr("abc123"))),
    Response(200, Malformed),
    Response(200, Obj("node_key" :> JNum)),
    Response(200, Obj(NoFields)),
    Response(200, Obj("node_key" :> JStr("abc123"))) }

PlainOutcomes ==
  { TransportErr, Response(500, Malformed), Response(200, Malformed) }

ReadOutcomes ==
  { TransportErr,
    Response(500, Obj("queries" :> JObj(Trigger :> "select 1"))),
    Response(200, Malformed),
    Response(200, Obj("queries" :> JNum)),
    Response(200, Obj(NoFields)),
    Response(200, Obj("queries" :> JObj(OtherQuery :> "select 2"))),
    Response(200, Obj("queries" :> JObj(Trigger :> "select 1"))) }

\* field names the templates ask for, and values rand.Int63() returns
FieldNames == {"hostname", "serial"}
RandDraws == { [j \in 1..FieldLen |-> 0], [j \in 1..FieldLen |-> 64 + 65 * j] }

\* a server that answers every request with 200 and a usable body
OkEnroll == { Response(200, Obj("node_key" :> JStr("abc123"))) }
OkPlain == { Response(200, Malformed) }
OkRead == { Response(200, Obj("queries" :> JObj(Trigger :> "select 1"))) }

mainNext == mainSleepTime \/ mainSpawn \/ mainWake \/ mainRunning

\* a step of agent a's goroutine, the server answering from these sets
agentNext(a, enrollOuts, plainOuts, readOuts) ==
  \/ runLoop(a)
  \/ EnrollDo(a)
  \/ \E out \in enrollOuts : EnrollReturn(a, out)
  \/ Config(a)
  \/ \E out \in plainOuts : ConfigReturn(a, out)
  \/ DistributedRead(a)
  \/ \E out \in readOuts : DistributedReadReturn(a, out)
  \/ DistributedWrite(a)
  \/ DistributedWriteDo(a)
  \/ \E out \in plainOuts : DistributedWriteReturn(a, out)

(* The protocol: every outcome of every exchange, templates without cached *)
(* fields, time passing a whole idle interval at a time.                   *)
Next ==
  \/ mainNext
  \/ Tick(LoopSleep)
  \/ \E a \in 1..MaxHosts :
       agentNext(a, EnrollOutcomes, PlainOutcomes, ReadOutcomes)

Spec == Init /\ [][Next]_vars

(* The field cache: one or two agents whose templates ask for cached       *)
(* fields, in any order and any number of times, against a server that     *)
(* always answers 200.                                                     *)
NextCache ==
  \/ mainNext
  \/ Tick(LoopSleep)
  \/ \E a \in 1..MaxHosts : agentNext(a, OkEnroll, OkPlain, OkRead)
  \/ \E a \in 1..MaxHosts : \E key \in FieldNames : \E rnd \in RandDraws :
       TemplateField(a, key, rnd)

\* the cache is per agent: one or two agents
InitCache == InitWith({1, 2}, BOOLEAN)

SpecCache == InitCache /\ [][NextCache]_vars

(* The launcher: main and the clock, second by second, for fleets of up to *)
(* MaxFleet hosts, against a server that never answers: every run loop     *)
(* stays blocked in the Client.Do of its Enroll.                           *)
InitLaunch == InitWith(-1..MaxFleet, {TRUE})

NextLaunch ==
  \/ mainNext
  \/ Tick(1)
  \/ \E a \in 1..MaxFleet : runLoop(a) \/ EnrollDo(a)

SpecLaunch == InitLaunch /\ [][NextLaunch]_vars

(* The launcher under fair scheduling: main keeps running and time keeps   *)
(* passing; the agents' goroutines may run or not, and the server never    *)
(* answers.                                                                *)
InitLaunchFair == InitWith(-1..MaxLaunch, {TRUE})

SpecLaunchFair ==
  /\ InitLaunchFair
  /\ [][NextLaunch]_vars
  /\ WF_vars(mainNext)
  /\ WF_vars(Tick(1))

(* Cycle timing: a server that always answers 200, after any latency, the  *)
(* clock advancing half a window at a time.                                *)
NextTimed ==
  \/ mainNext
  \/ Tick(Window \div 2)
  \/ \E a \in 1..MaxHosts : agentNext(a, OkEnroll, OkPlain, OkRead)

SpecTimed == Init /\ [][NextTimed]_vars

(* Progress: the protocol under fair scheduling.  The launcher, the clock  *)
(* and every agent but the first keep taking the steps they can take, and  *)
(* their calls return; the first agent may stop anywhere, for instance     *)
(* inside a Client.Do that never returns.  Each call is answered with 200  *)
(* or fails in transport.                                                  *)
\* a server that answers 200, or cannot be reached
agentNextFair(a) ==
  agentNext(a, OkEnroll \cup {TransportErr}, OkPlain \cup {TransportErr},
            OkRead \cup {TransportErr})

NextFair ==
  \/ mainNext
  \/ Tick(LoopSleep)
  \/ \E a \in 1..MaxHosts : agentNextFair(a)

SpecFair ==
  /\ Init
  /\ [][NextFair]_vars
  /\ WF_vars(mainNext)
  /\ WF_vars(Tick(LoopSleep))
  /\ \A a \in 2..MaxHosts : WF_vars(agentNextFair(a))

(* Rendering: templates whose execution may fail, against a server that   *)
(* always answers 200.                                                     *)
NextRender ==
  \/ mainNext
  \/ Tick(LoopSleep)
  \/ \E a \in 1..MaxHosts : agentNext(a, OkEnroll, OkPlain, OkRead)
  \/ \E a \in 1..MaxHosts : TemplateFails(a)

SpecRender == Init /\ [][NextRender]_vars

(* Progress of every agent: the protocol with every outcome of every       *)
(* exchange, under fair scheduling of the launcher, the clock and every    *)
(* agent: each goroutine keeps running and each call made returns.         *)
agentNextAll(a) == agentNext(a, EnrollOutcomes, PlainOutcomes, ReadOutcomes)

InitLive == InitWith({1, 2}, BOOLEAN)

SpecLive ==
  /\ InitLive
  /\ [][Next]_vars
  /\ WF_vars(mainNext)
  /\ WF_vars(Tick(LoopSleep))
  /\ \A a \in 1..MaxHosts : WF_vars(agentNextAll(a))

(* ======================= the claims ======================= *)
LoopPaths == {ConfigPath, ReadPath, WritePath}

\* the read exchange failed: transport error, status other than 200, or a
\* body that does not decode
ReadFailed(out) ==
  \/ out.err
  \/ out.status # 200
  \/ ~out.body.wf
  \/ /\ "queries" \in DOMAIN out.body.fields
     /\ out.body.fields["queries"].t # "object"

\* the query names a read response carries
QueriesOf(out) ==
  IF "queries" \in DOMAIN out.body.fields
    THEN GoMap(out.body.fields["queries"].m)
    ELSE NilMap

\* C1: Enroll is invoked exactly once per run loop, has returned before any
\* Config, DistributedRead or DistributedWrite is called or any of their
\* requests is out, and is never invoked again
C1_EnrollExactlyOnce ==
  \A a \in Agents :
    /\ hist[a].nEnroll = IF agents[a].pc = "ready" THEN 0 ELSE 1
    /\ hist[a].enrollDone <=> agents[a].pc \notin {"ready", "enroll", "enrollWait"}
    /\ (hist[a].nConfig + hist[a].nRead + hist[a].nWrite > 0
          \/ agents[a].req.path \in LoopPaths)
         => (hist[a].nEnroll = 1 /\ hist[a].enrollDone)

\* a failed enrollment followed by a whole cycle, the next one due
C1_Witness ==
  \E a \in Agents :
    /\ addrOK
    /\ agents[a].pc = "sleep" /\ agents[a].timer = 0
    /\ agents[a].NodeKey = ""
    /\ hist[a].nEnroll = 1 /\ hist[a].nConfig = 1 /\ hist[a].nRead = 1

\* C2: a DistributedWrite whose mapping lacks the trigger query (a nil
\* mapping included) issues no HTTP call; one whose mapping has it issues
\* exactly one POST, to the distributed/write endpoint
C2_WriteOnlyOnTrigger ==
  \A a \in Agents :
    LET has == ~hist[a].writeArg.nil /\ Trigger \in DOMAIN hist[a].writeArg.m
    IN  /\ hist[a].nWrite = 0 => hist[a].nPost = 0
        /\ hist[a].nWrite = 1 /\ ~has =>
             /\ hist[a].nPost = 0
             /\ agents[a].pc = "sleep" /\ agents[a].req = NoReq
        /\ hist[a].nWrite = 1 /\ has =>
             \/ agents[a].pc = "render" /\ hist[a].nPost = 0
             \/ /\ agents[a].pc = "writeWait" /\ hist[a].nPost = 1
                /\ agents[a].req.method = "POST"
                /\ agents[a].req.path = "/api/v1/osquery/distributed/write"
             \/ agents[a].pc = "sleep" /\ hist[a].nPost = 1

\* one agent's write was given the trigger and has posted once, another's
\* was given a nil mapping and has returned
C2_Witness ==
  \E a, b \in Agents :
    /\ agents[a].pc = "sleep" /\ hist[a].nWrite = 1 /\ hist[a].nPost = 1
    /\ Trigger \in DOMAIN hist[a].writeArg.m
    /\ agents[b].pc = "sleep" /\ hist[b].nWrite = 1 /\ hist[b].nPost = 0
    /\ hist[b].writeArg.nil

\* this cycle's DistributedRead has returned, and with a failure
FailedReadCycle(a) ==
  /\ hist[a].nRead = 1
  /\ agents[a].pc # "readWait"
  /\ hist[a].readOut = NoOut \/ ReadFailed(hist[a].readOut)

ReadErrors ==
  { "create distributed read request:", "do distributed read request:",
    "distributed read status:", "json parse distributed read response:" }

\* C3: in a cycle whose DistributedRead fails, the read returns an error
\* and no result, the loop logs the error, there is no DistributedWrite
\* call and no distributed-write POST, and once the idle interval is over
\* the next cycle begins with Config
C3_FailedReadSkipsWrite ==
  /\ [](\A a \in Agents :
         FailedReadCycle(a) =>
           /\ agents[a].pc = "sleep"
           /\ agents[a].resp = NilMap /\ agents[a].req = NoReq
           /\ hist[a].log # {} /\ hist[a].log \subseteq ReadErrors
           /\ hist[a].nWrite = 0 /\ hist[a].nPost = 0)
  /\ [][\A a \in Agents :
         FailedReadCycle(a) /\ agents'[a].pc # "sleep" =>
           /\ agents[a].timer = 0
           /\ agents'[a].pc \in {"configWait", "read"}
           /\ hist'[a].nConfig = 1 /\ hist'[a].nRead = 0
           /\ agents'[a].pc = "configWait" =>
                agents'[a].req.path = "/api/v1/osquery/config"]_vars

\* a read answered with HTTP 500 has been logged, the idle is over
C3_Witness ==
  \E a \in Agents :
    /\ agents[a].pc = "sleep" /\ agents[a].timer = 0
    /\ hist[a].readOut.status = 500
    /\ hist[a].log = {"distributed read status:"}
    /\ hist[a].nWrite = 0

\* C4: in a cycle whose DistributedRead succeeds, DistributedWrite is
\* called once with the mapping of that cycle's read response, and the
\* cycle ends with one distributed-write POST if that response names the
\* trigger query and with none if it does not
C4_WriteGetsThisCyclesQueries ==
  \A a \in Agents :
    LET out == hist[a].readOut
    IN  out # NoOut /\ ~ReadFailed(out) =>
          /\ hist[a].nWrite <= 1 /\ hist[a].nPost <= 1
          /\ hist[a].nWrite = 1 => hist[a].writeArg = QueriesOf(out)
          /\ agents[a].pc = "sleep" =>
               /\ hist[a].nWrite = 1
               /\ hist[a].nPost =
                    IF Trigger \in DOMAIN QueriesOf(out).m THEN 1 ELSE 0

\* one agent's cycle read the trigger query and posted once, another's read
\* only a different query and posted nothing
C4_Witness ==
  \E a, b \in Agents :
    /\ agents[a].pc = "sleep" /\ hist[a].nPost = 1
    /\ DOMAIN QueriesOf(hist[a].readOut).m = {Trigger}
    /\ agents[b].pc = "sleep" /\ hist[b].nPost = 0 /\ hist[b].nWrite = 1
    /\ DOMAIN QueriesOf(hist[b].readOut).m = {OtherQuery}

\* the enroll exchange failed: transport error, status other than 200, or
\* a body that does not decode
EnrollFailed(out) ==
  \/ out.err
  \/ out.status # 200
  \/ ~out.body.wf
  \/ /\ "node_key" \in DOMAIN out.body.fields
     /\ out.body.fields["node_key"].t # "string"

\* C5: when the enroll exchange fails, Enroll logs and leaves NodeKey
\* empty; when it succeeds NodeKey becomes the node_key of the response;
\* either way the agent is at the top of its loop and Config can be called
C5_EnrollOutcome ==
  /\ [](\A a \in Agents : agents[a].pc = "enrolled" => ENABLED Config(a))
  /\ [][\A a \in Agents :
         agents[a].pc = "enrollWait" =>
           \A out \in EnrollOutcomes :
             EnrollReturn(a, out) =>
               /\ agents'[a].pc = "enrolled"
               /\ IF EnrollFailed(out)
                    THEN agents'[a].NodeKey = "" /\ hist'[a].log # {}
                    ELSE /\ hist'[a].log = {}
                         /\ agents'[a].NodeKey =
                              IF "node_key" \in DOMAIN out.body.fields
                                THEN out.body.fields["node_key"].s
                                ELSE ""]_vars

\* one agent enrolled with the key of the response, another was answered
\* with a non-200 status and is in the loop without a key
C5_Witness ==
  \E a, b \in Agents :
    /\ agents[a].pc = "enrolled" /\ agents[a].NodeKey = "abc123"
    /\ hist[a].log = {}
    /\ agents[b].pc = "configWait" /\ agents[b].NodeKey = ""
    /\ hist[b].enrollDone

\* C6: NodeKey is empty until Enroll returns, is written only by Enroll,
\* never changes afterwards, and the body of every Config and
\* DistributedRead request is the JSON object carrying exactly that value
C6_NodeKeyStable ==
  /\ [](\A a \in Agents :
         /\ ~hist[a].enrollDone => agents[a].NodeKey = ""
         /\ hist[a].enrollDone => agents[a].NodeKey = hist[a].enrolledKey
         /\ agents[a].req.path \in {ConfigPath, ReadPath} =>
              /\ agents[a].req.method = "POST"
              /\ agents[a].req.body =
                   "{\"node_key\": \"" \o hist[a].enrolledKey \o "\"}")
  /\ [][\A a \in Agents :
         agents'[a].NodeKey # agents[a].NodeKey =>
           agents[a].pc = "enrollWait" /\ ~hist[a].enrollDone]_vars

\* an enrolled agent whose Config was rejected reads with its key
\* unchanged, and one whose enrollment failed reads with the empty key
C6_Witness ==
  \E a, b \in Agents :
    /\ agents[a].pc = "read" /\ hist[a].log = {"config status:"}
    /\ agents[a].NodeKey = "abc123"
    /\ agents[b].pc = "readWait"
    /\ agents[b].req.body = "{\"node_key\": \"\"}"

\* C7: CachedString is idempotent: whatever calls came before, a call
\* returns the value that the first call with the same name returned
C7_CachedStringIdempotent ==
  \A a \in Agents :
    hist[a].cached # NoCall =>
      /\ hist[a].cached.key \in DOMAIN hist[a].first
      /\ hist[a].cached.val = hist[a].first[hist[a].cached.key]

\* while rendering distributed_write, a name is asked for again after
\* another name was given a different value
C7_Witness ==
  \E a \in Agents :
    /\ agents[a].pc = "render"
    /\ hist[a].cached.again /\ hist[a].cached.key = "serial"
    /\ DOMAIN agents[a].strings = {"hostname", "serial"}
    /\ agents[a].strings["hostname"] # agents[a].strings["serial"]

\* the per-agent delay the launcher uses for N hosts
DelayFor(n) == Window \div n

\* C8 as amended: with N >= 1 hosts the per-agent delay is window/N, and
\* the k-th run loop (0-indexed) is started no earlier than k * (window/N)
\* after launcher start; in particular all N run loops are started no
\* earlier than (N-1) * (window/N)
C8_StaggeredStart ==
  hostCount >= 1 /\ mainPc \notin {"main", "panic"} =>
    /\ sleepTime = DelayFor(hostCount)
    /\ hostCount * sleepTime <= Window
    /\ Len(agents) >= 1 => lastGoAt >= (Len(agents) - 1) * DelayFor(hostCount)
    /\ Len(agents) = IF mainPc = "sleep" THEN i + 1 ELSE i

\* the fifth of five run loops is started 8 seconds after launcher start
C8_Witness ==
  /\ hostCount = 5 /\ Len(agents) = 5
  /\ sleepTime = 2 /\ lastGoAt = 8 /\ mainPc = "sleep"

\* C8 as stated: the lower bounds, and every run loop has been started by
\* (N-1) * (window/N) after launcher start
C8_Original ==
  /\ C8_StaggeredStart
  /\ hostCount >= 1 /\ elapsed > (hostCount - 1) * DelayFor(hostCount) =>
       Len(agents) = hostCount

\* every agent of the fleet is looping: the launcher is done and each
\* agent has begun a cycle
SteadyState ==
  /\ hostCount >= 1 /\ mainPc = "running"
  /\ \A a \in Agents : hist[a].nConfig = 1

\* the window/N sub-interval of the 10-second window a time falls in
SubInterval(p) == p \div DelayFor(hostCount)

\* C9 as stated: at steady state no two agents have the start of their
\* current cycle in the same window/N sub-interval, whatever the latencies
C9_Original ==
  SteadyState =>
    \A a, b \in Agents :
      a # b => SubInterval(hist[a].startPhase) # SubInterval(hist[b].startPhase)

\* C9 as amended: the stagger is set up at launch only.  An agent's idle of
\* 10 seconds begins when the last call of its cycle has returned, runs
\* with the clock, and the next cycle begins (with Config, at the current
\* time) only when it is over: a cycle lasts 10 seconds plus its latencies,
\* so cycle boundaries drift and two agents may share a sub-interval
C9_CyclePeriod ==
  [][\A a \in Agents :
       /\ agents[a].pc # "sleep" /\ agents'[a].pc = "sleep" =>
            agents'[a].timer = 10
       /\ agents[a].pc = "sleep" /\ agents'[a].pc = "sleep" =>
            agents'[a].timer =
              Max(0, agents[a].timer - ((phase' + Window - phase) % Window))
       /\ agents[a].pc = "sleep" /\ agents'[a].pc # "sleep" =>
            /\ agents[a].timer = 0
            /\ hist'[a].nConfig = 1
            /\ hist'[a].startPhase = phase]_vars

\* at steady state two agents begin their cycles in the same half of the
\* window
C9_Witness ==
  /\ SteadyState /\ hostCount = 2
  /\ agents[1].pc = "configWait" /\ agents[2].pc = "configWait"
  /\ hist[1].startPhase = 5 /\ hist[2].startPhase = 5

\* C10: whatever the first agent does (blocked for ever in a call, or
\* failing every call), every other agent of the fleet calls Config again
\* and again; and whether an agent can take a step depends on its own
\* state alone: it can, unless it is in an idle that is not over
C10_AgentsIndependent ==
  /\ \A a \in 2..MaxHosts : hostCount >= a => []<><<Config(a)>>_vars
  /\ [](\A a \in Agents :
         ENABLED agentNextFair(a) <=> ~(agents[a].pc = "sleep" /\ agents[a].timer > 0))

\* the second agent has finished a cycle and its idle while the first is
\* still blocked in the Client.Do of Enroll
C10_Witness ==
  /\ Len(agents) >= 2
  /\ agents[1].pc = "enrollWait"
  /\ agents[2].pc = "sleep" /\ agents[2].timer = 0 /\ hist[2].nPost = 1

(* ---------------- C11 ---------------- *)
\* what an agent owns: its session key, its identity and its field cache
Owned(b) == <<agents[b].NodeKey, agents[b].UUID, agents[b].strings>>

\* a step of agent a's run loop, CachedString calls included
AgentStep(a) ==
  \/ agentNext(a, OkEnroll, OkPlain, OkRead)
  \/ \E key \in FieldNames : \E rnd \in RandDraws : TemplateField(a, key, rnd)

\* C11: no step of one agent's run loop (Enroll, Config, DistributedRead,
\* DistributedWrite, CachedString) changes the session key, identity or
\* field cache of another agent, and no step of the launcher or the clock
\* changes those of an agent that exists
C11_NoSharedState ==
  [][\A b \in Agents :
       /\ b \in DOMAIN agents'
       /\ \/ Owned(b)' = Owned(b)
          \/ /\ \A a \in 1..MaxHosts : a # b => ~AgentStep(a)
             /\ ~(mainNext \/ Tick(LoopSleep))]_vars

\* two agents side by side, each with its own key and its own cached
\* value of the same field
C11_Witness ==
  /\ Len(agents) = 2
  /\ agents[1].pc = "render" /\ agents[2].pc = "enroll"
  /\ agents[1].NodeKey = "abc123" /\ agents[2].NodeKey = ""
  /\ "hostname" \in DOMAIN agents[1].strings
  /\ "hostname" \in DOMAIN agents[2].strings
  /\ agents[1].strings["hostname"] # agents[2].strings["hostname"]

(* ---------------- C12 ---------------- *)
\* C12: whatever the outcomes of its calls (success, transport, status or
\* decode error), as long as they return, every agent of the fleet calls
\* Config again and again; and in no reachable state is an agent stopped:
\* it has a next step, or is in an idle that is not over
C12_LoopNeverTerminates ==
  /\ \A a \in 1..MaxHosts : hostCount >= a => []<><<Config(a)>>_vars
  /\ [](\A a \in Agents :
          \/ ENABLED agentNextAll(a)
          \/ agents[a].pc = "sleep" /\ agents[a].timer > 0)

\* an agent whose enroll failed and whose read has just failed is through
\* its idle, about to call Config again
C12_Witness ==
  /\ Len(agents) >= 1
  /\ agents[1].pc = "sleep" /\ agents[1].timer = 0
  /\ agents[1].NodeKey = "" /\ hist[1].enrollDone
  /\ hist[1].log = {"distributed read status:"}

(* ---------------- C13 ---------------- *)
\* the characters of stringVals
Alphabet == { stringVals[c] : c \in 1..Len(stringVals) }

\* a string of exactly FieldLen characters, all of the alphabet
WellFormed(str) ==
  /\ Len(str) = FieldLen
  /\ \A j \in 1..Len(str) : SubSeq(str, j, j) \in Alphabet

\* C13: the alphabet has 65 characters; every index rand.Int63() mod
\* len(alphabet) is within it; and every value generated for a field cache,
\* stored or returned, has exactly 12 characters, all of the alphabet
C13_RandomStringShape ==
  /\ Len(stringVals) = 65 /\ Cardinality(Alphabet) = 65
  /\ \A rnd \in RandDraws : \A j \in 1..FieldLen :
       rnd[j] >= 0 /\ (rnd[j] % Len(stringVals)) \in 0..(Len(stringVals) - 1)
  /\ \A a \in Agents :
       /\ \A k \in DOMAIN agents[a].strings : WellFormed(agents[a].strings[k])
       /\ hist[a].cached.key # "" => WellFormed(hist[a].cached.val)

\* both fields of an agent hold generated values, one drawn at the low end
\* of the alphabet and one at the high end
C13_Witness ==
  /\ Len(agents) >= 1
  /\ DOMAIN agents[1].strings = FieldNames
  /\ agents[1].strings["hostname"] = "aaaaaaaaaaaa"
  /\ agents[1].strings["serial"] = "............"

(* ---------------- C14 ---------------- *)
\* where the run loop may be next, from each place of a cycle
CycleSucc(pc) ==
  CASE pc \in {"enrolled", "sleep"} -> IF addrOK THEN {"configWait"} ELSE {"read"}
    [] pc = "configWait" -> {"read"}
    [] pc = "read" -> IF addrOK THEN {"readWait"} ELSE {"sleep"}
    [] pc = "readWait" -> {"write", "sleep"}
    [] pc = "write" -> {"render", "sleep"}
    [] pc = "render" -> IF addrOK THEN {"writeWait"} ELSE {"sleep"}
    [] pc = "writeWait" -> {"sleep"}
    [] OTHER -> {"enroll", "enrollWait", "enrolled"}

\* the calls made so far in the cycle the agent is in
CallsSoFar(a) == <<hist[a].nConfig, hist[a].nRead, hist[a].nWrite>>

\* C14: a cycle is one Config, then one DistributedRead (whatever came of
\* Config), then at most one DistributedWrite with at most one request,
\* then the idle of 10 seconds; nothing is called a second time in a cycle
C14_CycleShape ==
  /\ [](\A a \in Agents :
          /\ agents[a].pc \in {"configWait", "read"} => CallsSoFar(a) = <<1, 0, 0>>
          /\ agents[a].pc \in {"readWait", "write"} => CallsSoFar(a) = <<1, 1, 0>>
          /\ agents[a].pc \in {"render", "writeWait"} => CallsSoFar(a) = <<1, 1, 1>>
          /\ agents[a].pc = "sleep" =>
               /\ CallsSoFar(a) \in {<<1, 1, 0>>, <<1, 1, 1>>}
               /\ hist[a].nPost <= hist[a].nWrite)
  /\ [][\A a \in Agents :
         /\ agents'[a].pc # agents[a].pc =>
              agents'[a].pc \in CycleSucc(agents[a].pc)
         /\ agents[a].pc = "configWait" /\ agents'[a].pc # "configWait" =>
              agents'[a].pc = "read" /\ CallsSoFar(a)' = <<1, 0, 0>>
         /\ agents[a].pc # "sleep" /\ agents'[a].pc = "sleep" =>
              agents'[a].timer = LoopSleep]_vars

\* one agent begins its idle after a cycle of all three calls, while
\* another, whose Config has just failed, is about to call DistributedRead
C14_Witness ==
  /\ Len(agents) = 2
  /\ agents[1].pc = "sleep" /\ agents[1].timer = LoopSleep
  /\ CallsSoFar(1) = <<1, 1, 1>> /\ hist[1].nPost = 1
  /\ agents[2].pc = "read" /\ hist[2].log = {"config status:"}

(* ---------------- C15 ---------------- *)
\* the places where the run loop is blocked in a.Client.Do
InClientDo == {"enrollWait", "configWait", "readWait", "writeWait"}

\* C15: an agent has a request out exactly while it is blocked in the
\* Client.Do that sent it (none during the idle); a request is issued only
\* when none is out, and a request that is out goes away only by its own
\* response or error being received
C15_OneRequestAtATime ==
  /\ [](\A a \in Agents :
          /\ agents[a].req # NoReq <=> agents[a].pc \in InClientDo
          /\ agents[a].pc = "sleep" => agents[a].req = NoReq)
  /\ [][\A a \in Agents :
         agents'[a].req # agents[a].req =>
           \/ agents[a].req = NoReq /\ agents'[a].pc \in InClientDo
           \/ agents'[a].req = NoReq /\ agents[a].pc \in InClientDo
                                     /\ agents'[a].pc \notin InClientDo]_vars

\* one agent is waiting for the response to its read while another is in
\* its idle, with nothing out
C15_Witness ==
  /\ Len(agents) = 2
  /\ agents[1].pc = "readWait"
  /\ agents[1].req = Post(ReadPath, NodeKeyBody(agents[1].NodeKey))
  /\ agents[2].pc = "sleep" /\ agents[2].timer > 0 /\ agents[2].req = NoReq
  /\ hist[2].nPost = 1

(* ---------------- C16 ---------------- *)
\* C16: an agent's field cache has exactly the names CachedString was ever
\* called with for that agent, so no more than there are names; and no
\* step removes a key or changes the value stored under it
C16_CacheMonotonic ==
  /\ [](\A a \in Agents :
          /\ DOMAIN agents[a].strings = DOMAIN hist[a].first
          /\ Cardinality(DOMAIN agents[a].strings) <= Cardinality(FieldNames))
  /\ [][\A a \in Agents : \A k \in DOMAIN agents[a].strings :
         /\ k \in DOMAIN agents'[a].strings
         /\ agents'[a].strings[k] = agents[a].strings[k]]_vars

\* an agent rendering its distributed_write body has asked again for a
\* field it already had, with both fields cached
C16_Witness ==
  /\ Len(agents) >= 1
  /\ agents[1].pc = "render"
  /\ DOMAIN agents[1].strings = FieldNames
  /\ hist[1].cached.again /\ hist[1].cached.key = "serial"
  /\ agents[1].strings["serial"] # agents[1].strings["hostname"]

(* ---------------- C17 ---------------- *)
\* the request the agent has out carries a body cut short by a failed
\* ExecuteTemplate
PartialBodyOut(a) ==
  agents[a].req.body \in
    {Rendered("enroll", TRUE), Rendered("distributed_write", TRUE)}

\* C17: a failure of the template renderer inside Enroll or
\* DistributedWrite is logged and does not stop the agent: when the request
\* has gone out with the partial body, a log line has been written for the
\* failure
C17_RenderFailureLogged ==
  \A a \in Agents :
    /\ agents[a].pc # "stopped"
    /\ PartialBodyOut(a) => hist[a].log # {}

(* ---------------- C18 ---------------- *)
\* C18: for N >= 1 the launcher gets to "agents running", with no agent's
\* call ever returning; it has then created exactly N agents, in order,
\* and started one run loop for each, which is never started again; and
\* whether the launcher can go on never depends on an agent: it can,
\* unless it is in a pause that is not over
C18_LauncherStartsAll ==
  /\ hostCount >= 1 => <>(mainPc = "running")
  /\ [](mainPc = "running" /\ hostCount >= 1 =>
          /\ Len(agents) = hostCount /\ i = hostCount
          /\ \A k \in Agents : agents[k].UUID = k /\ hist[k].nEnroll <= 1)
  /\ [](mainPc \in {"main", "loop"} \/ (mainPc = "sleep" /\ mainTimer = 0)
          => ENABLED mainNext)
  /\ [][/\ Len(agents') \in {Len(agents), Len(agents) + 1}
        /\ Len(agents') = Len(agents) + 1 =>
             /\ agents'[Len(agents')] = NewAgent(Len(agents'))
             /\ \A k \in Agents : agents'[k] = agents[k]
        /\ \A k \in Agents :
             agents[k].pc # "ready" => agents'[k].pc # "ready"]_vars

\* the launcher is done with a fleet of three while every run loop is
\* blocked in the Client.Do of its Enroll
C18_Witness ==
  /\ hostCount = 3 /\ mainPc = "running"
  /\ Len(agents) = 3
  /\ \A k \in Agents : agents[k].pc = "enrollWait" /\ hist[k].nEnroll = 1

(* ---------------- C19 ---------------- *)
\* C19: every response an operation gets is closed when the operation
\* returns, on the 200, the non-200 and the decode-failure paths alike: an
\* agent never comes out of an operation holding an open response body, so
\* it holds none between operations and none during its idle, however many
\* cycles it has run
C19_ResponsesClosed ==
  \A a \in Agents : agents[a].openBodies = 0

\* after cycles that got responses of each kind: one agent has just run
\* into a body that does not decode, the other into a non-200 status on
\* its write
C19_Witness ==
  /\ Len(agents) = 2
  /\ agents[1].pc = "sleep" /\ agents[1].NodeKey = "abc123"
  /\ hist[1].log = {"json parse distributed read response:"}
  /\ agents[2].pc = "sleep" /\ hist[2].nPost = 1
  /\ hist[2].log = {"distributed write status:"}

(* ---------------- C20 ---------------- *)
\* C20: the launcher's delay window / N is defined for every host count:
\* there is no fatal arithmetic error; for N = 0 and negative N no agent is
\* created; and for N >= 1 the delay is the integer quotient, with
\* N x delay within the window
C20_DelayDefined ==
  /\ mainPc # "panic"
  /\ hostCount <= 0 => agents = << >>
  /\ hostCount >= 1 /\ mainPc # "main" =>
       sleepTime = Window \div hostCount /\ hostCount * sleepTime <= Window

====
